---- MODULE Spec2Model ----
(***************************************************************************)
(* A model of autonmt's BaseTranslator (toolkits/base.py): the translate,  *)
(* score and parse_metrics stages working through the files of the         *)
(* per-beam translation and score directories, fit() and predict() with    *)
(* the configuration record they keep, the directories derived for a unit, *)
(* and TranslationDataset.collate_fn (translation_dataset.py).             *)
(*                                                                         *)
(* A file of a translation directory is modelled by its presence and its   *)
(* number of lines; a score file by its presence and the metrics whose     *)
(* results it holds.  Every public method is one action; what the call    *)
(* did (hooks invoked, files written and read, the error raised, the      *)
(* value returned) is kept in the variable last.                           *)
(***************************************************************************)
EXTENDS Integers, Sequences, FiniteSets, TLC

VARIABLES
    filter_ts_data_fn,  \* self.filter_ts_data_fn: the names of the split filters, in order
    fs,                 \* translation directories: path -> files present and their line counts
    sc,                 \* score directories: path -> tool -> score file
    staged,             \* eval names whose raw/preprocessed/encoded data were staged
    last,               \* the log of the latest call
    ncalls,             \* number of calls made so far
    batch,              \* collate_fn's batch: a sequence of (x, y) text pairs
    max_tokens,         \* collate_fn's max_tokens: [none, n], none for None
    max_src_positions,  \* self.max_src_positions
    collated,           \* what the collate_fn call did and returned
    parsed,             \* tool -> the entries its parser returned for one score file
    flat,               \* the beam_scores built from parsed
    model_ds,           \* self.model_ds
    heap,               \* the dict objects alive: address -> contents (self.config)
    held,               \* the records earlier predict() calls returned to the caller
    run,                \* the log of the latest fit() or predict() call
    phase,              \* how many fit()/predict() calls were made: none, one, two
    faulted,            \* a collaborator has failed in some fit()/predict() call
    targets,            \* two units: (run prefix, model dataset, eval dataset, split, beam)
    dirs                \* the directories the stages derive for the two units

pipelineVars == <<filter_ts_data_fn, fs, sc, staged, last, ncalls>>
batchVars == <<batch, max_tokens, max_src_positions, collated>>
flattenVars == <<parsed, flat>>
predictVars == <<model_ds, heap, held, run, phase, faulted>>
pathVars == <<targets, dirs>>
vars == <<pipelineVars, batchVars, flattenVars, predictVars, pathVars>>

----------------------------------------------------------------------------
(* Bounds *)

\* Lines of the evaluation corpus' test split.
NumLines == 2

\* Calls explored in one behaviour.
MaxCalls == 3

\* Samples in a batch given to collate_fn.
MaxBatch == 3

\* Largest token budget given to collate_fn.
MaxTokens == 8

\* (metric, sub-score) entries in one parsed score file.
MaxEntries == 2

----------------------------------------------------------------------------
(* The class tables of BaseTranslator *)

Tools == {"sacrebleu", "bertscore", "comet", "beer", "huggingface", "fairseq"}

TOOL2METRICS ==
    [t \in {"sacrebleu", "bertscore", "comet", "beer", "fairseq"} |->
        CASE t = "sacrebleu" -> {"bleu", "chrf", "ter"}
          [] t = "bertscore" -> {"bertscore"}
          [] t = "comet"     -> {"comet"}
          [] t = "beer"      -> {"beer"}
          [] t = "fairseq"   -> {"fairseq"}]

SupportedMetrics == UNION {TOOL2METRICS[t] : t \in DOMAIN TOOL2METRICS}

METRICS2TOOL ==
    [m \in SupportedMetrics |-> CHOOSE t \in DOMAIN TOOL2METRICS : m \in TOOL2METRICS[t]]

\* "<filename>.<ext>" of TOOL_PARSERS
ScoreFileName(t) ==
    CASE t = "sacrebleu"   -> "sacrebleu_scores.json"
      [] t = "bertscore"   -> "bertscore_scores.json"
      [] t = "comet"       -> "comet_scores.json"
      [] t = "beer"        -> "beer_scores.json"
      [] t = "huggingface" -> "huggingface_scores.json"
      [] t = "fairseq"     -> "fairseq_scores.txt"

\* x.startswith("hg_") on the metric names of the model
HgMetricNames == {"hg_meteor", "hg_rouge"}
IsHg(m) == m \in HgMetricNames

\* x[3:] on a huggingface metric name
HgStrip(m) ==
    CASE m = "hg_meteor" -> "meteor"
      [] m = "hg_rouge"  -> "rouge"

----------------------------------------------------------------------------
(* The call arguments explored *)

EvalNames == {"e1"}

\* The evaluation datasets a predict() call translates: e1 and e2 have the
\* languages of the model dataset (x1, with another target language, is
\* refused before it gets a directory).
PredictEvalNames == {"e1", "e2"}

BeamLists == {<<5>>, <<5, 1>>}
BeamSet == {1, 5}

SplitConfigs == {<<"">>, <<"", "s1">>}
SplitNames == {"", "s1"}

MetricSets ==
    { {"bleu"}, {"bleu", "chrf"}, {"bleu", "unknown_metric"}, {"unknown_metric"},
      {"beer"}, {"bertscore", "hg_meteor"} }

----------------------------------------------------------------------------
(* Artifact layout *)

\* get_model_eval_translations_beam_path / ..._beam_scores_path:
\* .../<eval_name>/translations|scores/beam<k>/[<split>/]
BeamPath(eval_name, split_name, beam) == <<eval_name, beam, split_name>>
ScoresPath(eval_name, split_name, beam) == <<eval_name, beam, split_name>>

AllPaths ==
    {BeamPath(e, s, b) : e \in EvalNames \cup PredictEvalNames, s \in SplitNames, b \in BeamSet}

UnitFiles == {"hyp.tok", "hyp.txt", "src.txt", "ref.txt"}

EmptyDir == [files |-> {}, tok |-> 0, hyp |-> 0, ref |-> 0]
NoScoreFile == [present |-> FALSE, metrics |-> {}]

\* Lines of src.txt / ref.txt of a split: the raw file for the unnamed split
\* (copied), the lines filter_fn keeps for a named one.
SplitLines(split_name) == IF split_name = "" THEN NumLines ELSE NumLines - 1

\* for fn_name in filter_ts_data_fn: for beam in beams
RECURSIVE UnitsFrom(_, _, _, _)
UnitsFrom(splits, beams, i, j) ==
    IF i > Len(splits) THEN <<>>
    ELSE IF j > Len(beams) THEN UnitsFrom(splits, beams, i + 1, 1)
    ELSE <<[split |-> splits[i], beam |-> beams[j]]>> \o UnitsFrom(splits, beams, i, j + 1)

UnitList(splits, beams) == UnitsFrom(splits, beams, 1, 1)

Range(s) == {s[i] : i \in DOMAIN s}

----------------------------------------------------------------------------
(* The log of a call *)

NoResult == [some |-> FALSE, translations |-> <<>>]

NewLog(op, eval, beams, metrics, fw) ==
    [op |-> op, eval |-> eval, beams |-> beams, metrics |-> metrics, fw |-> fw,
     repeat |-> FALSE,      \* the call before completed and had the same arguments
     visited |-> <<>>,      \* paths of the units the beam loop reached, in order
     raised |-> FALSE, err |-> "none",
     decoded |-> <<>>,      \* paths the decode hook was invoked for, in order
     scored |-> <<>>,       \* <<path, tool>> of the scoring sub-routines invoked, in order
     mismatch |-> {},       \* paths scored while count(hyp.txt) # count(ref.txt)
     wrote |-> {},          \* <<path, file name>> written
     read |-> {},           \* <<path, file name>> of the score files read
     parse_errors |-> {},   \* <<path, file name>> of the score files whose parsing raised
     warned |-> {},         \* metric names reported as not supported
     ret |-> NoResult]

\* The call logged as log comes right after a completed call with the same arguments.
Repeats(before, log) ==
    /\ ~before.raised
    /\ before.op = log.op /\ before.eval = log.eval /\ before.beams = log.beams
    /\ before.metrics = log.metrics /\ before.fw = log.fw

Logged(before, log) == [log EXCEPT !.repeat = Repeats(before, log)]

\* The beam loop of a stage reaches the unit of a path.
Visit(st, path) == [st EXCEPT !.log.visited = Append(@, path)]

----------------------------------------------------------------------------
(* translate(): the loop over split filters and beams (base.py 318-390) *)

\* What the collaborators of one unit did: the engine's decode hook
\* (_translate) raised, it wrote a hyp.tok with one line per input line, it
\* wrote (out of memory) a hyp.tok that lacks the last line, or it wrote a full
\* hyp.tok and decode_file raised afterwards.
HookOutcomes == {"ok", "raises", "truncated", "decode_raises"}

HookLines(o, split_name) ==
    IF o = "truncated" THEN SplitLines(split_name) - 1 ELSE SplitLines(split_name)

\* tok_flag = [os.path.exists(os.path.join(output_path, f)) for f in ["hyp.tok"]]
TokFlag(dir) == "hyp.tok" \in dir.files

NeedsTranslate_IgnoreMarker(force_overwrite, tok_flag) == TRUE

\* if force_overwrite or not all(tok_flag)
NeedsTranslate(force_overwrite, tok_flag) == force_overwrite \/ ~tok_flag

\* decode_file: hyp.tok -> hyp.txt, one line per line
DecodeFile(tok_lines) == tok_lines

\* if num_lines_ref != num_lines_hyp: raise ValueError
LineCountMismatch(num_lines_ref, num_lines_hyp) == num_lines_ref # num_lines_hyp

\* The body of the beam loop for one unit; st = [fs, log].
TranslateUnit(st, eval_name, u, force_overwrite, o) ==
    LET output_path == BeamPath(eval_name, u.split, u.beam)
        dir == st.fs[output_path]
    IN  IF ~NeedsTranslate(force_overwrite, TokFlag(dir)) THEN st
        ELSE IF o = "raises"
        THEN [st EXCEPT !.log.decoded = Append(@, output_path),
                        !.log.raised = TRUE, !.log.err = "decode"]
        ELSE IF o = "decode_raises"
        THEN [st EXCEPT !.fs[output_path] =
                            [files |-> dir.files \cup {"hyp.tok", "src.txt", "ref.txt"},
                             tok |-> HookLines(o, u.split),
                             ref |-> SplitLines(u.split),
                             hyp |-> dir.hyp],
                        !.log.decoded = Append(@, output_path),
                        !.log.wrote = @ \cup {<<output_path, f>> :
                                                  f \in {"hyp.tok", "src.txt", "ref.txt"}},
                        !.log.raised = TRUE, !.log.err = "decode_file"]
        ELSE LET ndir == [files |-> dir.files \cup UnitFiles,
                          tok |-> HookLines(o, u.split),
                          ref |-> SplitLines(u.split),
                          hyp |-> DecodeFile(HookLines(o, u.split))]
                 st2 == [st EXCEPT !.fs[output_path] = ndir,
                                   !.log.decoded = Append(@, output_path),
                                   !.log.wrote = @ \cup {<<output_path, f>> : f \in UnitFiles}]
             IN  IF LineCountMismatch(ndir.ref, ndir.hyp)
                 THEN [st2 EXCEPT !.log.raised = TRUE, !.log.err = "line_count"]
                 ELSE st2

\* The hook's outcome for the i-th unit: every unit decodes in full except,
\* possibly, unit bad.
HookOutcomeAt(units, i, bad, o) ==
    IF i = bad THEN o ELSE "ok"

RECURSIVE TranslateLoop(_, _, _, _, _, _, _)
TranslateLoop(st, eval_name, units, i, force_overwrite, bad, o) ==
    IF i > Len(units) \/ st.log.raised THEN st
    ELSE TranslateLoop(TranslateUnit(Visit(st, BeamPath(eval_name, units[i].split, units[i].beam)),
                                     eval_name, units[i], force_overwrite,
                                     HookOutcomeAt(units, i, bad, o)),
                       eval_name, units, i + 1, force_overwrite, bad, o)

\* translate(model_ds, eval_ds, beams, ..., force_overwrite)
TranslateCall(fs0, eval_name, beams, force_overwrite, bad, o) ==
    TranslateLoop([fs |-> fs0, log |-> NewLog("translate", eval_name, beams, {}, force_overwrite)],
                  eval_name, UnitList(filter_ts_data_fn, beams), 1, force_overwrite, bad, o)

Translate ==
    /\ ncalls < MaxCalls
    /\ \E eval_name \in EvalNames, beams \in BeamLists, force_overwrite \in BOOLEAN :
       \E bad \in 0..Len(UnitList(filter_ts_data_fn, beams)), o \in HookOutcomes :
          /\ (bad = 0) = (o = "ok")
          /\ \E r \in {TranslateCall(fs, eval_name, beams, force_overwrite, bad, o)} :
                 /\ fs' = r.fs
                 /\ last' = Logged(last, r.log)
                 /\ staged' = staged \cup {eval_name}
    /\ ncalls' = ncalls + 1
    /\ UNCHANGED <<filter_ts_data_fn, sc, batchVars, flattenVars, predictVars, pathVars>>

----------------------------------------------------------------------------
(* Metric support (base.py 30-46, 92-103) *)

\* _check_supported_metrics: the valid metrics and, printed as a warning, the others
MetricsValid(metrics, metrics_supported) ==
    (metrics \cap metrics_supported) \cup {x \in metrics : IsHg(x)}

MetricsNonValid(metrics, metrics_supported) ==
    metrics \ MetricsValid(metrics, metrics_supported)

\* _get_metrics_tool
GetMetricsTool(metrics) ==
    {"huggingface" : m \in {x \in metrics : IsHg(x)}}
    \cup {METRICS2TOOL[m] : m \in {x \in metrics : ~IsHg(x) /\ x \in DOMAIN METRICS2TOOL}}

----------------------------------------------------------------------------
(* score(): base.py 393-465 *)

\* The scoring sub-routines of score(), in the order of its if-blocks:
\* compute_sacrebleu, compute_bertscore, compute_comet, compute_fairseq,
\* compute_huggingface.
ScoreRoutines == <<"sacrebleu", "bertscore", "comet", "fairseq", "huggingface">>

\* hg_metrics = {x[3:] for x in metrics if x.startswith("hg_")}
HgMetrics(metrics) == {HgStrip(x) : x \in {y \in metrics : IsHg(y)}}

\* The condition of a routine's if-block
RoutineWanted(tool, metrics) ==
    IF tool = "huggingface" THEN HgMetrics(metrics) # {}
    ELSE TOOL2METRICS[tool] \cap metrics # {}

NeedsScore_IgnoreFile(force_overwrite, exists) == TRUE

MissingInputs_Never(dir) == FALSE

\* if force_overwrite or not os.path.exists(output_file)
NeedsScore(force_overwrite, exists) == force_overwrite \/ ~exists

\* The metrics whose results a routine writes to its score file
RoutineOutput(tool, metrics) ==
    IF tool = "huggingface" THEN HgMetrics(metrics)
    ELSE TOOL2METRICS[tool] \cap metrics

\* if not all([os.path.exists(p) for p in [src_file_path, ref_file_path, hyp_file_path]])
MissingInputs(dir) == ~({"src.txt", "ref.txt", "hyp.txt"} \subseteq dir.files)

\* One if-block of score() for one unit; st = [sc, log], fails: the routine raises.
ScoreRoutine(st, dir, path, tool, metrics, force_overwrite, fails) ==
    IF ~RoutineWanted(tool, metrics) THEN st
    ELSE IF ~NeedsScore(force_overwrite, st.sc[path][tool].present) THEN st
    ELSE LET st1 == [st EXCEPT !.log.scored = Append(@, <<path, tool>>),
                               !.log.mismatch = IF dir.hyp # dir.ref THEN @ \cup {path} ELSE @]
         IN  IF fails
             THEN [st1 EXCEPT !.log.raised = TRUE, !.log.err = "tool"]
             ELSE [st1 EXCEPT !.sc[path][tool] =
                                  [present |-> TRUE, metrics |-> RoutineOutput(tool, metrics)],
                              !.log.wrote = @ \cup {<<path, ScoreFileName(tool)>>}]

RECURSIVE ScoreRoutines_(_, _, _, _, _, _, _)
ScoreRoutines_(st, dir, path, k, metrics, force_overwrite, failTool) ==
    IF k > Len(ScoreRoutines) \/ st.log.raised THEN st
    ELSE ScoreRoutines_(ScoreRoutine(st, dir, path, ScoreRoutines[k], metrics, force_overwrite,
                                     failTool = ScoreRoutines[k]),
                        dir, path, k + 1, metrics, force_overwrite, failTool)

\* The body of the beam loop of score() for one unit
ScoreUnit(st, fs0, eval_name, u, metrics, force_overwrite, failTool) ==
    LET beam_path == BeamPath(eval_name, u.split, u.beam)
        scores_path == ScoresPath(eval_name, u.split, u.beam)
        dir == fs0[beam_path]
    IN  IF MissingInputs(dir)
        THEN [st EXCEPT !.log.raised = TRUE, !.log.err = "missing_files"]
        ELSE ScoreRoutines_(st, dir, scores_path, 1, metrics, force_overwrite, failTool)

RECURSIVE ScoreLoop(_, _, _, _, _, _, _, _)
ScoreLoop(st, fs0, eval_name, units, i, metrics, force_overwrite, failTool) ==
    IF i > Len(units) \/ st.log.raised THEN st
    ELSE ScoreLoop(ScoreUnit(Visit(st, BeamPath(eval_name, units[i].split, units[i].beam)),
                             fs0, eval_name, units[i], metrics, force_overwrite, failTool),
                   fs0, eval_name, units, i + 1, metrics, force_overwrite, failTool)

SkipScore_Never(metrics_valid) == FALSE

\* if not metrics_valid: return
SkipScore(metrics_valid) == metrics_valid = {}

\* score(model_ds, eval_ds, beams, metrics, force_overwrite); failTool: the
\* tool whose sub-routine raises in this call, if any
ScoreCall(sc0, fs0, eval_name, beams, metrics, force_overwrite, failTool) ==
    LET log0 == [NewLog("score", eval_name, beams, metrics, force_overwrite)
                    EXCEPT !.warned = MetricsNonValid(metrics, DOMAIN METRICS2TOOL)]
        st0 == [sc |-> sc0, log |-> log0]
    IN  IF SkipScore(MetricsValid(metrics, DOMAIN METRICS2TOOL)) THEN st0
        ELSE ScoreLoop(st0, fs0, eval_name, UnitList(filter_ts_data_fn, beams), 1,
                       metrics, force_overwrite, failTool)

Score ==
    /\ ncalls < MaxCalls
    /\ \E eval_name \in EvalNames, beams \in BeamLists, metrics \in MetricSets,
          force_overwrite \in BOOLEAN :
       \E failTool \in {"none"} \cup {t \in Range(ScoreRoutines) : RoutineWanted(t, metrics)} :
          \E r \in {ScoreCall(sc, fs, eval_name, beams, metrics, force_overwrite, failTool)} :
              /\ sc' = r.sc
              /\ last' = Logged(last, r.log)
    /\ ncalls' = ncalls + 1
    /\ UNCHANGED <<filter_ts_data_fn, fs, staged, batchVars, flattenVars, predictVars, pathVars>>

----------------------------------------------------------------------------
(* parse_metrics(): base.py 468-536 *)

\* dict.update
Update(d, e) == [k \in DOMAIN d \cup DOMAIN e |-> IF k \in DOMAIN e THEN e[k] ELSE d[k]]

\* str.lower() on the metric and sub-score names of the model
Lower(name) ==
    CASE name = "BLEU"   -> "bleu"
      [] name = "Score " -> "score "
      [] OTHER           -> name

\* str.strip() at the end of a key: the blanks after the sub-score name
StripEnd(name) ==
    CASE name = "score " -> "score"
      [] OTHER           -> name

FlatKey_NoTool(m_tool, m_name, score_name) ==
    Lower(m_name) \o "_" \o StripEnd(Lower(score_name))

\* f"{m_tool}_{m_name}_{score_name}".lower().strip(); the tool names of
\* TOOL_PARSERS are lower-case and hold no blank
FlatKey(m_tool, m_name, score_name) ==
    m_tool \o "_" \o Lower(m_name) \o "_" \o StripEnd(Lower(score_name))

\* for m_name, m_values in m_scores.items(): for score_name, score_value in m_values.items():
\*     beam_scores[m_name_full] = score_value
\* m_scores is given as the sequence of its (m_name, score_name, score_value) entries.
RECURSIVE Flatten(_, _, _, _)
Flatten(beam_scores, m_tool, m_scores, k) ==
    IF k > Len(m_scores) THEN beam_scores
    ELSE Flatten(Update(beam_scores,
                        FlatKey(m_tool, m_scores[k].m_name, m_scores[k].score_name)
                            :> m_scores[k].score_value),
                 m_tool, m_scores, k + 1)

\* What a tool's parser returns for a score file, in the order of the file:
\* metric name and sub-score name.
ToolSchema(m_tool) ==
    CASE m_tool = "sacrebleu"   -> << <<"bleu", "score">>, <<"chrf", "score">>, <<"ter", "score">> >>
      [] m_tool = "bertscore"   -> << <<"bertscore", "precision">>, <<"bertscore", "recall">>,
                                      <<"bertscore", "f1">> >>
      [] m_tool = "comet"       -> << <<"comet", "score">> >>
      [] m_tool = "beer"        -> << <<"beer", "score">> >>
      [] m_tool = "huggingface" -> << <<"meteor", "score">>, <<"rouge", "score">> >>
      [] m_tool = "fairseq"     -> << <<"fairseq", "score">> >>

\* m_parser(text=f.readlines()) on the score file of tool m_tool in scores_path:
\* a score value is named by the file it was computed into
RECURSIVE ParsedFrom(_, _, _, _)
ParsedFrom(scores_path, m_tool, file, k) ==
    IF k > Len(ToolSchema(m_tool)) THEN <<>>
    ELSE (IF ToolSchema(m_tool)[k][1] \in file.metrics
          THEN << [m_name |-> ToolSchema(m_tool)[k][1],
                   score_name |-> ToolSchema(m_tool)[k][2],
                   score_value |-> <<scores_path, m_tool, ToolSchema(m_tool)[k][1],
                                     ToolSchema(m_tool)[k][2]>>] >>
          ELSE <<>>)
         \o ParsedFrom(scores_path, m_tool, file, k + 1)

Parsed(scores_path, m_tool, file) == ParsedFrom(scores_path, m_tool, file, 1)

\* The tools in the order the loop "for m_tool in metric_tools" visits them
ToolOrder == <<"sacrebleu", "bertscore", "comet", "beer", "huggingface", "fairseq">>

FileExists_Always(file) == TRUE

\* if os.path.exists(filename)
FileExists(file) == file.present

\* The loop over metric_tools for one unit; st = [beam_scores, log];
\* failParse: the tool whose parser raises on its score file, if any
RECURSIVE ParseTools(_, _, _, _, _, _)
ParseTools(st, sc0, scores_path, metric_tools, k, failParse) ==
    IF k > Len(ToolOrder) THEN st
    ELSE LET m_tool == ToolOrder[k]
             file == sc0[scores_path][m_tool]
             opened == [st EXCEPT !.log.read = @ \cup {<<scores_path, ScoreFileName(m_tool)>>}]
             st1 == IF m_tool \notin metric_tools THEN st
                    ELSE IF ~FileExists(file) THEN st
                    ELSE IF m_tool = failParse
                    THEN [opened EXCEPT !.log.parse_errors =
                                            @ \cup {<<scores_path, ScoreFileName(m_tool)>>}]
                    ELSE [opened EXCEPT !.beam_scores =
                                            Flatten(@, m_tool, Parsed(scores_path, m_tool, file), 1)]
         IN  ParseTools(st1, sc0, scores_path, metric_tools, k + 1, failParse)

\* str(beam)
Str(beam) == CASE beam = 1 -> "1" [] beam = 5 -> "5"

BeamKey(beam) == "beam" \o Str(beam)

\* d = {f"beam{str(beam)}": beam_scores}
\* d = {fn_name: d} if fn_name else d
\* scores["translations"].update(d)
AddBeamScores(translations, fn_name, beam, beam_scores) ==
    LET d == BeamKey(beam) :> beam_scores
    IN  Update(translations, IF fn_name # "" THEN fn_name :> d ELSE d)

RECURSIVE ParseLoop(_, _, _, _, _, _, _)
ParseLoop(st, sc0, eval_name, units, i, metric_tools, failParse) ==
    IF i > Len(units) THEN st
    ELSE LET u == units[i]
             scores_path == ScoresPath(eval_name, u.split, u.beam)
             r == ParseTools([beam_scores |-> <<>>, log |-> Visit(st, scores_path).log],
                             sc0, scores_path,
                             metric_tools, 1, failParse)
         IN  ParseLoop([translations |-> AddBeamScores(st.translations, u.split, u.beam,
                                                       r.beam_scores),
                        log |-> r.log],
                       sc0, eval_name, units, i + 1, metric_tools, failParse)

\* parse_metrics(model_ds, eval_ds, beams, metrics, force_overwrite)
ParseCall(sc0, eval_name, beams, metrics, failParse) ==
    LET log0 == [NewLog("parse_metrics", eval_name, beams, metrics, FALSE)
                    EXCEPT !.warned = MetricsNonValid(metrics, DOMAIN METRICS2TOOL)]
    IN  IF SkipScore(MetricsValid(metrics, DOMAIN METRICS2TOOL)) THEN log0
        ELSE LET r == ParseLoop([translations |-> <<>>, log |-> log0], sc0, eval_name,
                                UnitList(filter_ts_data_fn, beams), 1, GetMetricsTool(metrics),
                                failParse)
             IN  [r.log EXCEPT !.ret = [some |-> TRUE, translations |-> r.translations]]

ParseMetrics ==
    /\ ncalls < MaxCalls
    /\ \E eval_name \in EvalNames, beams \in BeamLists, metrics \in MetricSets :
       \E failParse \in {"none"} \cup GetMetricsTool(metrics) :
          last' = Logged(last, ParseCall(sc, eval_name, beams, metrics, failParse))
    /\ ncalls' = ncalls + 1
    /\ UNCHANGED <<filter_ts_data_fn, fs, sc, staged, batchVars, flattenVars, predictVars, pathVars>>

----------------------------------------------------------------------------
(* The configuration record: _add_config (base.py 105-120) *)

\* A Python value, as far as _add_config looks at it: its type, str(x), and
\* for a list or a set str(_x) of its items.
PyNone == [type |-> "NoneType", repr |-> "None", items |-> <<>>]
PyBool(b) == [type |-> "bool", repr |-> IF b THEN "True" ELSE "False", items |-> <<>>]
PyInt(repr) == [type |-> "int", repr |-> repr, items |-> <<>>]
PyList(items) == [type |-> "list", repr |-> "[..]", items |-> items]
PySet(items) == [type |-> "set", repr |-> "{..}", items |-> items]
PyDict == [type |-> "dict", repr |-> "{..}", items |-> <<>>]
PyObject(repr) == [type |-> "object", repr |-> repr, items |-> <<>>]

\* primitive_types = (str, bool, int, float, dict, set, list)
primitive_types == {"str", "bool", "int", "float", "dict", "set", "list"}

\* k.startswith("_") on the parameter names of the model
StartsWithUnderscore(k) == k \in {"_tmp"}

\* is_valid(k, v)
IsValid(k, v) ==
    /\ ~(StartsWithUnderscore(k) \/ k \in {"kwargs"})
    /\ (v.type \in primitive_types \/ v.type = "NoneType")

\* parse_value(x): a list of strings for a list or a set, else one string
ParseValue(x) ==
    IF x.type \in {"list", "set"} THEN [list |-> TRUE, v |-> x.items]
    ELSE [list |-> FALSE, v |-> <<x.repr>>]

ResetSection_Always(reset, present) == TRUE

\* if reset or key not in self.config
ResetSection(reset, present) == reset \/ ~present

\* _add_config(key, values, reset) on the contents cfg of self.config
AddConfig(cfg, key, values, reset) ==
    LET cfg1 == IF ResetSection(reset, key \in DOMAIN cfg) THEN Update(cfg, key :> <<>>)
                ELSE cfg
        valid == {k \in DOMAIN values : IsValid(k, values[k])}
    IN  [cfg1 EXCEPT ![key] = Update(@, [k \in valid |-> ParseValue(values[k])])]

----------------------------------------------------------------------------
(* TranslationDataset.collate_fn (translation_dataset.py 44-75) *)

Min(a, b) == IF a <= b THEN a ELSE b
Max_Latest(a, b) == b
Max(a, b) == IF a >= b THEN a ELSE b

\* The two vocabularies: the id of every word and the fill (pad) id.
src_vocab == [pad_id |-> 1, voc2idx |-> [w \in {"a", "b"} |-> IF w = "a" THEN 4 ELSE 5]]
trg_vocab == [pad_id |-> 3, voc2idx |-> [w \in {"a", "b"} |-> IF w = "a" THEN 6 ELSE 1]]

\* vocab.encode(text, max_length): the ids of the words of the text, truncated
Encode(vocab, text, max_length) ==
    [k \in 1..Min(Len(text), max_length) |-> vocab.voc2idx[text[k]]]

\* self.max_trg_positions
max_trg_positions == 2

\* The texts of the samples
SrcTexts == {<<"a">>, <<"b", "a", "b">>}
TrgTexts == {<<>>, <<"b">>, <<"a", "a", "b">>}
Samples == SrcTexts \X TrgTexts

RECURSIVE SeqsUpTo(_, _)
SeqsUpTo(S, n) ==
    IF n = 0 THEN {<<>>}
    ELSE LET shorter == SeqsUpTo(S, n - 1)
         IN  shorter \cup {Append(q, x) : q \in {r \in shorter : Len(r) = n - 1}, x \in S}

Batches == SeqsUpTo(Samples, MaxBatch) \ {<<>>}

Budgets == {[none |-> TRUE, n |-> 0]} \cup [none : {FALSE}, n : 0..MaxTokens]

WithinBudget_Strict(budget, i, x_max_len, y_max_len) ==
    budget.none \/ (i + 1) * (x_max_len + y_max_len) < budget.n

TokensEstimate_Index(i, x_max_len, y_max_len) == i * (x_max_len + y_max_len)

\* (i+1)*(x_max_len+y_max_len), the "sample*size" the budget is compared with
TokensEstimate(i, x_max_len, y_max_len) == (i + 1) * (x_max_len + y_max_len)

WithinBudget_Previous(budget, i, x_max_len, y_max_len) ==
    budget.none \/ i * (x_max_len + y_max_len) <= budget.n

\* max_tokens is None or (i+1)*(x_max_len+y_max_len) <= max_tokens
WithinBudget(budget, i, x_max_len, y_max_len) ==
    budget.none \/ TokensEstimate(i, x_max_len, y_max_len) <= budget.n

\* drop_ratio = 1 - ((i+1)/len(batch)), as the fraction num/den
DropRatio(i, n) == [num |-> n - (i + 1), den |-> n]

\* The loop "for i, (x, y) in enumerate(batch)"; i is 0-based, st holds the locals
\* and, in encoded, the indices of the samples given to the two encoders and, in
\* estimates, the sample*size compared with the budget at each of them.
RECURSIVE CollateLoop(_, _, _, _, _)
CollateLoop(st, b, budget, src_positions, i) ==
    IF i >= Len(b) \/ st.warned THEN st
    ELSE LET x_ == Encode(src_vocab, b[i + 1][1], src_positions)
             y_ == Encode(trg_vocab, b[i + 1][2], max_trg_positions)
             x_max_len == Max(st.x_max_len, Len(x_))
             y_max_len == Max(st.y_max_len, Len(y_))
             st1 == [st EXCEPT !.x_max_len = x_max_len, !.y_max_len = y_max_len,
                               !.encoded = Append(@, i),
                               !.estimates =
                                   IF budget.none THEN @
                                   ELSE Append(@, TokensEstimate(i, x_max_len, y_max_len))]
         IN  IF WithinBudget(budget, i, x_max_len, y_max_len)
             THEN CollateLoop([st1 EXCEPT !.x_encoded = Append(@, x_),
                                          !.y_encoded = Append(@, y_)],
                              b, budget, src_positions, i + 1)
             ELSE [st1 EXCEPT !.warned = TRUE, !.drop_ratio = DropRatio(i, Len(b))]

MaxLen(seqs) == IF seqs = <<>> THEN 0
                ELSE CHOOSE m \in {Len(seqs[k]) : k \in DOMAIN seqs} :
                        \A k \in DOMAIN seqs : Len(seqs[k]) <= m

PadValue_Leading(row, t, padding_value, max_len) ==
    IF t > max_len - Len(row) THEN row[t - (max_len - Len(row))] ELSE padding_value

\* Element t of a sequence padded to the longest one
PadValue(row, t, padding_value, max_len) ==
    IF t <= Len(row) THEN row[t] ELSE padding_value

\* pad_sequence(sequences, batch_first=False, padding_value): a T x B tensor
PadSequence(sequences, padding_value) ==
    [shape |-> <<MaxLen(sequences), Len(sequences)>>,
     at |-> [t \in 1..MaxLen(sequences) |->
               [k \in 1..Len(sequences) |->
                   PadValue(sequences[k], t, padding_value, MaxLen(sequences))]]]

\* tensor.T of a two-dimensional tensor
Transpose(tensor) ==
    [shape |-> <<tensor.shape[2], tensor.shape[1]>>,
     at |-> [k \in 1..tensor.shape[2] |-> [t \in 1..tensor.shape[1] |-> tensor.at[t][k]]]]

\* tensor.numel()
Numel(tensor) == tensor.shape[1] * tensor.shape[2]

NoTensor == [shape |-> <<0, 0>>, at |-> <<>>]

\* collate_fn(batch, max_tokens)
CollateFn(b, budget, src_positions) ==
    LET st == CollateLoop([x_encoded |-> <<>>, y_encoded |-> <<>>, x_max_len |-> 0,
                           y_max_len |-> 0, warned |-> FALSE, encoded |-> <<>>,
                           estimates |-> <<>>, drop_ratio |-> [num |-> 0, den |-> 1]],
                          b, budget, src_positions, 0)
        x_padded == Transpose(PadSequence(st.x_encoded, src_vocab.pad_id))
        y_padded == Transpose(PadSequence(st.y_encoded, trg_vocab.pad_id))
        res == [called |-> TRUE, err |-> "none", x_encoded |-> st.x_encoded,
                y_encoded |-> st.y_encoded, warned |-> st.warned,
                encoded |-> st.encoded, estimates |-> st.estimates, drop_ratio |-> st.drop_ratio, x_padded |-> NoTensor, y_padded |-> NoTensor]
    IN  IF st.x_encoded = <<>>
        THEN [res EXCEPT !.err = "pad_sequence"]   \* pad_sequence raises on an empty list
        ELSE IF ~(x_padded.shape[1] = y_padded.shape[1]
                  /\ y_padded.shape[1] = Len(st.x_encoded))
        THEN [res EXCEPT !.err = "assert_samples"]
        ELSE IF ~(budget.none \/ Numel(x_padded) + Numel(y_padded) <= budget.n)
        THEN [res EXCEPT !.err = "assert_max_tokens"]
        ELSE [res EXCEPT !.x_padded = x_padded, !.y_padded = y_padded]

NotCollated ==
    [called |-> FALSE, err |-> "none", x_encoded |-> <<>>, y_encoded |-> <<>>,
     warned |-> FALSE, encoded |-> <<>>, estimates |-> <<>>,
     drop_ratio |-> [num |-> 0, den |-> 1],
     x_padded |-> NoTensor, y_padded |-> NoTensor]

Collate ==
    /\ ~collated.called
    /\ collated' = CollateFn(batch, max_tokens, max_src_positions)
    /\ UNCHANGED <<batch, max_tokens, max_src_positions, pipelineVars, flattenVars, predictVars, pathVars>>

----------------------------------------------------------------------------
(* The flattening of parse_metrics() on arbitrary parser results *)

ParsedMetricNames == {"bleu", "BLEU", "a", "a_b"}
ParsedScoreNames == {"score", "Score ", "b_score"}

\* The entries of a parsed score file of m_tool; the value is named by its place
ParsedEntries(m_tool) ==
    {[m_name |-> m, score_name |-> n, score_value |-> <<m_tool, m, n>>] :
        m \in ParsedMetricNames, n \in ParsedScoreNames}

\* m_scores is a dict of dicts: no (metric, sub-score) pair twice, and the
\* sub-scores of one metric come together
IsDictOrder(q) ==
    /\ \A i, j \in DOMAIN q : i # j => q[i] # q[j]
    /\ \A i, j, k \in DOMAIN q : (i < j /\ j < k /\ q[i].m_name = q[k].m_name)
                                    => q[j].m_name = q[i].m_name

ParserResults(m_tool, n) == {q \in SeqsUpTo(ParsedEntries(m_tool), n) : IsDictOrder(q)}

FlattenTools == <<"sacrebleu", "huggingface">>

RECURSIVE FlattenAll(_, _, _)
FlattenAll(beam_scores, results, k) ==
    IF k > Len(FlattenTools) THEN beam_scores
    ELSE FlattenAll(Flatten(beam_scores, FlattenTools[k], results[FlattenTools[k]], 1),
                    results, k + 1)

FlattenStep ==
    /\ ~flat.done
    /\ flat' = [done |-> TRUE, beam_scores |-> FlattenAll(<<>>, parsed, 1)]
    /\ UNCHANGED <<parsed, pipelineVars, batchVars, predictVars, pathVars>>

InitFlattenIdle ==
    /\ parsed = [t \in Range(FlattenTools) |-> <<>>]
    /\ flat = [done |-> FALSE, beam_scores |-> <<>>]

----------------------------------------------------------------------------
(* fit() and predict(): base.py 122-195 *)

\* None as a dataset
NoDataset == "none"

\* The dataset a model is trained on
ModelDatasets == {"d1"}

\* src_lang and trg_lang of the datasets of the model
SrcLang(ds) == "en"
TrgLang(ds) == IF ds = "x1" THEN "fr" ELSE "de"

\* _check_datasets(train_ds, eval_ds) raises ValueError
Incompatible(train_ds, eval_ds) ==
    SrcLang(train_ds) # SrcLang(eval_ds) \/ TrgLang(train_ds) # TrgLang(eval_ds)

\* The eval_datasets arguments explored
EvalLists == {<<"e1", "e2">>, <<"e1", "x1">>}

\* self.model_ds.get_eval_datasets(eval_datasets)
GetEvalDatasets(eval_datasets) == eval_datasets

\* An optional argument: None, or a value
NoneArg(v) == [none |-> TRUE, v |-> v]
SomeArg(v) == [none |-> FALSE, v |-> v]

PredictBeams == {NoneArg(<<>>), SomeArg(<<1, 5, 1>>)}
PredictMetrics == {NoneArg({}), SomeArg({"unknown_metric"})}

\* **kwargs
KwargSets == {<<>>, ("_tmp" :> PyInt("1")) @@ ("seed" :> PyInt("7"))}

\* beams.sort(reverse=True) on list(set(beams))
RECURSIVE SortedReverse(_)
SortedReverse(S) ==
    IF S = {} THEN <<>>
    ELSE LET m == CHOOSE x \in S : \A y \in S : y <= x
         IN  <<m>> \o SortedReverse(S \ {m})

NormalizeBeams_AsGiven(beams) == IF beams.none THEN <<5>> ELSE beams.v

\* if beams is None: beams = [5]; else: beams = list(set(beams)); beams.sort(reverse=True)
NormalizeBeams(beams) == IF beams.none THEN <<5>> ELSE SortedReverse(Range(beams.v))

\* if metrics is None: metrics = {"bleu"}; else: metrics = set(metrics)
NormalizeMetrics(metrics) == IF metrics.none THEN {"bleu"} ELSE metrics.v

\* [str(_x) for _x in x] of a set, in the order the set is iterated
RECURSIVE SetItems(_)
SetItems(S) ==
    IF S = {} THEN <<>>
    ELSE LET x == CHOOSE y \in S : TRUE IN <<x>> \o SetItems(S \ {x})

\* locals() where fit() and predict() call _add_config: the parameters of the
\* call (max_tokens and batch_size stand for those left at their defaults)
FitLocals(train_ds, force_overwrite) ==
    [self |-> PyObject("translator"), train_ds |-> PyObject(train_ds),
     max_tokens |-> PyNone, batch_size |-> PyInt("128"),
     force_overwrite |-> PyBool(force_overwrite), kwargs |-> PyDict]

PredictLocals(eval_datasets, beams, metrics, model_ds_arg, force_overwrite) ==
    [self |-> PyObject("translator"), eval_datasets |-> PyList(eval_datasets),
     beams |-> PyList([i \in DOMAIN beams |-> Str(beams[i])]),
     metrics |-> PySet(SetItems(metrics)),
     max_tokens |-> PyNone, batch_size |-> PyInt("64"),
     model_ds |-> IF model_ds_arg = NoDataset THEN PyNone ELSE PyObject(model_ds_arg),
     force_overwrite |-> PyBool(force_overwrite), kwargs |-> PyDict]

\* The address of the dict made by "self.config = {}"
SelfConfig == "self.config"

\* What a failure of one collaborator in a predict() call is: the decode hook
\* or decode_file at one unit of one evaluation dataset (o), a scoring
\* sub-routine or a parser of one tool at one evaluation dataset.  At most one
\* collaborator fails in a behaviour (faulted).
NoFault == [stage |-> "none", eval |-> 0, unit |-> 0, o |-> "ok", tool |-> "none"]

Faults(eval_datasets, beams, metrics) ==
    {[stage |-> "translate", eval |-> n, unit |-> i, o |-> o, tool |-> "none"] :
        n \in DOMAIN eval_datasets, i \in 1..Len(UnitList(filter_ts_data_fn, beams)),
        o \in HookOutcomes \ {"ok"}}
    \cup {[stage |-> "score", eval |-> n, unit |-> 0, o |-> "ok", tool |-> t] :
            n \in DOMAIN eval_datasets,
            t \in {x \in Range(ScoreRoutines) : RoutineWanted(x, metrics)}}
    \cup {[stage |-> "parse", eval |-> n, unit |-> 0, o |-> "ok", tool |-> t] :
            n \in DOMAIN eval_datasets, t \in GetMetricsTool(metrics)}

\* The log of a fit() or predict() call
RunLog(op, eval_datasets, beams, metrics, force_overwrite, kwargs) ==
    [op |-> op, eval_datasets |-> eval_datasets, beams |-> beams, metrics |-> metrics,
     fw |-> force_overwrite, kwargs |-> DOMAIN kwargs,
     beams_arg |-> NoneArg(<<>>),   \* the beams argument as the caller gave it
     supplied |-> FALSE,    \* a model dataset was given to the constructor, fit() or predict()
     raised |-> FALSE, err |-> "none",
     io |-> <<>>,           \* directories made and files saved by the call itself, in order
     events |-> <<>>,       \* hook invocations and score-directory readings, in order
     stages |-> <<>>,       \* per evaluation dataset reached: the logs of its three stages
     returned |-> FALSE,
     ret |-> <<>>]          \* eval_scores

NoLog == NewLog("none", "none", <<>>, {}, FALSE)

StageLogs(eval_name, t, s, p) == [eval |-> eval_name, translate |-> t, score |-> s, parse |-> p]

\* What parse_metrics() returned: None, or scores with "config": self.config
ScoreRecord(ret, eval_name) ==
    [some |-> ret.some, eval_dataset |-> eval_name, translations |-> ret.translations,
     config |-> IF ret.some THEN SelfConfig ELSE "none"]

\* An invocation made for the n-th evaluation dataset: the decode hook or a
\* scoring sub-routine for the unit of a path, or parse_metrics() going through
\* the score files of the unit
Event(kind, n, path) == [kind |-> kind, n |-> n, path |-> path]

EvalEvents_ScoreFirst(n, t, s, p) ==
    [i \in DOMAIN s.scored |-> Event("score", n, s.scored[i][1])]
    \o [i \in DOMAIN t.decoded |-> Event("decode", n, t.decoded[i])]
    \o [i \in DOMAIN p.visited |-> Event("parse", n, p.visited[i])]

\* self.translate(...); self.score(...); self.parse_metrics(...): what the
\* three calls (of logs t, s, p) did, one call after the other
EvalEvents(n, t, s, p) ==
    [i \in DOMAIN t.decoded |-> Event("decode", n, t.decoded[i])]
    \o [i \in DOMAIN s.scored |-> Event("score", n, s.scored[i][1])]
    \o [i \in DOMAIN p.visited |-> Event("parse", n, p.visited[i])]

\* The body of "for eval_ds in eval_datasets" for the n-th dataset;
\* st = [model_ds, cfg, fs, sc, staged, log]
PredictEval(st, eval_name, n, beams, metrics, force_overwrite, fault) ==
    IF Incompatible(st.model_ds, eval_name)
    THEN [st EXCEPT !.log.raised = TRUE, !.log.err = "languages",
                    !.log.stages = Append(@, StageLogs(eval_name, NoLog, NoLog, NoLog))]
    ELSE LET bad == IF fault.stage = "translate" /\ fault.eval = n THEN fault.unit ELSE 0
             failTool == IF fault.stage = "score" /\ fault.eval = n THEN fault.tool ELSE "none"
             failParse == IF fault.stage = "parse" /\ fault.eval = n THEN fault.tool ELSE "none"
             t == TranslateCall(st.fs, eval_name, beams, force_overwrite, bad, fault.o)
             s == ScoreCall(st.sc, t.fs, eval_name, beams, metrics, force_overwrite, failTool)
             p == ParseCall(s.sc, eval_name, beams, metrics, failParse)
             st1 == [st EXCEPT !.fs = t.fs, !.staged = @ \cup {eval_name}]
         IN  IF t.log.raised
             THEN [st1 EXCEPT !.log.raised = TRUE, !.log.err = t.log.err,
                              !.log.events = @ \o EvalEvents(n, t.log, NoLog, NoLog),
                              !.log.stages = Append(@, StageLogs(eval_name, t.log, NoLog, NoLog))]
             ELSE IF s.log.raised
             THEN [st1 EXCEPT !.sc = s.sc, !.log.raised = TRUE, !.log.err = s.log.err,
                              !.log.events = @ \o EvalEvents(n, t.log, s.log, NoLog),
                              !.log.stages = Append(@, StageLogs(eval_name, t.log, s.log, NoLog))]
             ELSE [st1 EXCEPT !.sc = s.sc,
                              !.log.events = @ \o EvalEvents(n, t.log, s.log, p),
                              !.log.stages = Append(@, StageLogs(eval_name, t.log, s.log, p)),
                              !.log.ret = Append(@, ScoreRecord(p.ret, eval_name))]

RECURSIVE PredictLoop(_, _, _, _, _, _, _)
PredictLoop(st, eval_datasets, n, beams, metrics, force_overwrite, fault) ==
    IF n > Len(eval_datasets) \/ st.log.raised THEN st
    ELSE PredictLoop(PredictEval(st, eval_datasets[n], n, beams, metrics, force_overwrite, fault),
                     eval_datasets, n + 1, beams, metrics, force_overwrite, fault)

\* predict(eval_datasets, beams, metrics, ..., model_ds, force_overwrite, **kwargs)
PredictCall(eval_datasets, beams_arg, metrics_arg, model_ds_arg, force_overwrite, kwargs, fault) ==
    LET beams == NormalizeBeams(beams_arg)
        metrics == NormalizeMetrics(metrics_arg)
        st0 == [model_ds |-> model_ds, cfg |-> heap[SelfConfig], fs |-> fs, sc |-> sc,
                staged |-> staged,
                log |-> [RunLog("predict", eval_datasets, beams, metrics, force_overwrite,
                                kwargs)
                            EXCEPT !.beams_arg = beams_arg,
                                   !.supplied = run.supplied \/ model_ds_arg # NoDataset]]
    IN  IF model_ds_arg = NoDataset /\ model_ds = NoDataset
        THEN [st0 EXCEPT !.log.raised = TRUE, !.log.err = "missing_model_ds"]
        ELSE LET values == PredictLocals(eval_datasets, beams, metrics, model_ds_arg,
                                         force_overwrite)
                 st1 == [st0 EXCEPT
                            !.model_ds = IF model_ds_arg # NoDataset THEN model_ds_arg ELSE @,
                            !.cfg = AddConfig(AddConfig(@, "predict", values, FALSE),
                                              "predict", kwargs, FALSE),
                            !.log.io = <<"make_dir(logs_path)", "save_json(config_predict.json)">>]
                 st2 == PredictLoop(st1, GetEvalDatasets(eval_datasets), 1, beams, metrics,
                                    force_overwrite, fault)
             IN  [st2 EXCEPT !.log.returned = ~st2.log.raised]

IsRecord(result) == result.some

\* The records the caller keeps of a returned eval_scores, each with the
\* contents its "config" had when predict() returned
HeldFrom(log, cfg) ==
    IF ~log.returned THEN <<>>
    ELSE LET records == SelectSeq(log.ret, IsRecord)
         IN  [i \in DOMAIN records |-> [result |-> records[i], config_then |-> cfg]]

NextPhase(ph) == IF ph = "none" THEN "one" ELSE "two"

Predict ==
    /\ phase # "two"
    /\ \E eval_datasets \in EvalLists, beams_arg \in PredictBeams, metrics_arg \in PredictMetrics,
          model_ds_arg \in {NoDataset} \cup ModelDatasets, force_overwrite \in BOOLEAN,
          kwargs \in KwargSets :
       \E fault \in {NoFault} \cup
                    (IF faulted THEN {}
                     ELSE Faults(eval_datasets, NormalizeBeams(beams_arg),
                                 NormalizeMetrics(metrics_arg))) :
          \E r \in {PredictCall(eval_datasets, beams_arg, metrics_arg, model_ds_arg,
                               force_overwrite, kwargs, fault)} :
              /\ model_ds' = r.model_ds
              /\ heap' = [heap EXCEPT ![SelfConfig] = r.cfg]
              /\ fs' = r.fs
              /\ sc' = r.sc
              /\ staged' = r.staged
              /\ run' = r.log
              /\ held' = held \o HeldFrom(r.log, r.cfg)
              /\ faulted' = (faulted \/ fault # NoFault)
    /\ phase' = NextPhase(phase)
    /\ UNCHANGED <<filter_ts_data_fn, last, ncalls, batchVars, flattenVars, pathVars>>

\* What the engine hooks of fit() do: _preprocess and _train return, or one raises
FitOutcomes == {"ok", "preprocess_raises", "train_raises"}

\* fit(train_ds, ..., force_overwrite, **kwargs); st = [model_ds, cfg, log]
FitCall(train_ds, force_overwrite, kwargs, o) ==
    LET log0 == [RunLog("fit", <<>>, <<>>, {}, force_overwrite, kwargs)
                    EXCEPT !.io = <<"make_dir(logs_path)", "save_json(config_train.json)">>,
                           !.supplied = TRUE]
    IN  [model_ds |-> train_ds,
         cfg |-> AddConfig(AddConfig(heap[SelfConfig], "fit",
                                     FitLocals(train_ds, force_overwrite), FALSE),
                           "fit", kwargs, FALSE),
         log |-> IF o = "ok" THEN [log0 EXCEPT !.returned = TRUE]
                 ELSE [log0 EXCEPT !.raised = TRUE, !.err = o]]

Fit ==
    /\ phase # "two"
    /\ \E train_ds \in ModelDatasets, force_overwrite \in BOOLEAN, kwargs \in KwargSets,
          o \in (IF faulted THEN {"ok"} ELSE FitOutcomes) :
          \E r \in {FitCall(train_ds, force_overwrite, kwargs, o)} :
              /\ model_ds' = r.model_ds
              /\ heap' = [heap EXCEPT ![SelfConfig] = r.cfg]
              /\ run' = r.log
              /\ faulted' = (faulted \/ o # "ok")
    /\ phase' = NextPhase(phase)
    /\ UNCHANGED <<held, pipelineVars, batchVars, flattenVars, pathVars>>

InitModelDs_Kept(model_ds_arg) == model_ds_arg

\* self.model_ds after __init__(..., model_ds=model_ds_arg):
\* self.model_ds = model_ds; self.config = {}; self.model_ds = None
InitModelDs(model_ds_arg) == NoDataset

\* __init__(engine, run_prefix, model_ds=model_ds_arg, ...)
Construct(model_ds_arg) ==
    /\ model_ds = InitModelDs(model_ds_arg)
    /\ heap = [a \in {SelfConfig} |-> <<>>]
    /\ held = <<>>
    /\ run = [RunLog("init", <<>>, <<>>, {}, FALSE, <<>>)
                 EXCEPT !.supplied = model_ds_arg # NoDataset]
    /\ phase = "none"
    /\ faulted = FALSE

\* A translator constructed without a model dataset
InitTranslator == Construct(NoDataset)

----------------------------------------------------------------------------
(* The directories of a unit: base.py 266-276, 325-329, 406-421, 484-508 *)

\* DatasetIdentity: corpus name, language pair, size variant, subword model,
\* vocabulary size
Datasets ==
    [dataset_name : {"multi30k", "europarl"}, dataset_lang_pair : {"de-en"},
     dataset_size_name : {"original"}, subword_model : {"word", "bpe"},
     vocab_size : {"8000", "16000"}]

RunPrefixes == {"model", "big"}

\* eval_ds.id(): "Subword model and vocab size don't characterize the dataset!"
Id(ds) == <<ds.dataset_name, ds.dataset_lang_pair, ds.dataset_size_name>>

\* sep.join(parts)
RECURSIVE Join(_, _)
Join(sep, parts) ==
    IF parts = <<>> THEN ""
    ELSE IF Len(parts) = 1 THEN parts[1]
    ELSE parts[1] \o sep \o Join(sep, Tail(parts))

\* eval_name = '_'.join(eval_ds.id())
EvalName(eval_ds) == Join("_", Id(eval_ds))

\* run_name = model_ds.get_run_name(self.run_prefix)
RunName(model, run_prefix) == <<run_prefix, model>>

\* output_path / beam_path and scores_path of a unit
UnitDirs(u) ==
    [translations |-> <<RunName(u.model_ds, u.run_prefix), "translations",
                        BeamPath(EvalName(u.eval_ds), u.split_name, u.beam)>>,
     scores |-> <<RunName(u.model_ds, u.run_prefix), "scores",
                  ScoresPath(EvalName(u.eval_ds), u.split_name, u.beam)>>]

Targets ==
    [run_prefix : RunPrefixes, model_ds : ModelDatasets, eval_ds : Datasets,
     split_name : SplitNames, beam : BeamSet]

\* The stages derive the directories of the two units
ResolvePaths ==
    /\ dirs = <<>>
    /\ dirs' = <<UnitDirs(targets[1]), UnitDirs(targets[2])>>
    /\ UNCHANGED <<targets, pipelineVars, batchVars, flattenVars, predictVars>>

InitPathsIdle ==
    /\ targets = <<>>
    /\ dirs = <<>>

----------------------------------------------------------------------------
(* The translator: direct calls of translate(), score() and parse_metrics() *)

InitPipeline ==
    /\ fs = [p \in AllPaths |-> EmptyDir]
    /\ sc = [p \in AllPaths |-> [t \in Tools |-> NoScoreFile]]
    /\ staged = {}
    /\ last = NewLog("init", "e1", <<>>, {}, FALSE)
    /\ ncalls = 0

InitBatchIdle ==
    /\ batch = <<>>
    /\ max_tokens = [none |-> TRUE, n |-> 0]
    /\ max_src_positions = 2
    /\ collated = NotCollated

Init ==
    /\ filter_ts_data_fn \in SplitConfigs
    /\ InitPipeline
    /\ InitBatchIdle
    /\ InitFlattenIdle
    /\ InitTranslator
    /\ InitPathsIdle

Next ==
    \/ Translate
    \/ Score
    \/ ParseMetrics

Spec == Init /\ [][Next]_vars

(* The batch constructor: one collate_fn call on every batch and budget *)

InitBatch ==
    /\ filter_ts_data_fn = <<"">>
    /\ InitPipeline
    /\ batch \in Batches
    /\ max_tokens \in Budgets
    /\ max_src_positions \in {2, 3}
    /\ collated = NotCollated
    /\ InitFlattenIdle
    /\ InitTranslator
    /\ InitPathsIdle

NextBatch == Collate

SpecBatch == InitBatch /\ [][NextBatch]_vars

(* The flattening: one pass over the parser results of two tools *)

InitFlatten ==
    /\ filter_ts_data_fn = <<"">>
    /\ InitPipeline
    /\ InitBatchIdle
    /\ parsed \in [sacrebleu : ParserResults("sacrebleu", MaxEntries),
                   huggingface : ParserResults("huggingface", 1)]
    /\ flat = [done |-> FALSE, beam_scores |-> <<>>]
    /\ InitTranslator
    /\ InitPathsIdle

NextFlatten == FlattenStep

SpecFlatten == InitFlatten /\ [][NextFlatten]_vars

(* The translator driven through fit() and predict(): a first call and a later one *)

InitPredict ==
    /\ filter_ts_data_fn = <<"", "s1">>
    /\ InitPipeline
    /\ InitBatchIdle
    /\ InitFlattenIdle
    /\ \E model_ds_arg \in {NoDataset} \cup ModelDatasets : Construct(model_ds_arg)
    /\ InitPathsIdle

NextPredict ==
    \/ Fit
    \/ Predict

SpecPredict == InitPredict /\ [][NextPredict]_vars

(* The directories of two units *)

InitPaths ==
    /\ filter_ts_data_fn = <<"">>
    /\ InitPipeline
    /\ InitBatchIdle
    /\ InitFlattenIdle
    /\ InitTranslator
    /\ targets \in Targets \X Targets
    /\ dirs = <<>>

NextPaths == ResolvePaths

SpecPaths == InitPaths /\ [][NextPaths]_vars

----------------------------------------------------------------------------
(* Properties of translate(), score() and parse_metrics() *)

UnitPaths(eval_name, beams) ==
    [i \in 1..Len(UnitList(filter_ts_data_fn, beams)) |->
        BeamPath(eval_name, UnitList(filter_ts_data_fn, beams)[i].split,
                 UnitList(filter_ts_data_fn, beams)[i].beam)]

\* C1: a translate() call that comes right after a completed translate() call
\* with the same arguments, force_overwrite=false, invokes the decode hook for
\* no unit and writes none of hyp.tok, hyp.txt, src.txt, ref.txt.
C1_TranslateIdempotent ==
    (last.op = "translate" /\ last.repeat /\ ~last.fw)
        => (last.decoded = <<>> /\ last.wrote = {} /\ ~last.raised)

C1_Witness ==
    /\ last.op = "translate" /\ last.repeat /\ ~last.fw
    /\ last.beams = <<5, 1>>
    /\ \A p \in Range(UnitPaths(last.eval, last.beams)) : UnitFiles \subseteq fs[p].files

\* C2: a score() call that comes right after a completed score() call with the
\* same arguments, force_overwrite=false, invokes no scoring sub-routine and
\* writes no score file.
C2_ScoreIdempotent ==
    (last.op = "score" /\ last.repeat /\ ~last.fw)
        => (last.scored = <<>> /\ last.wrote = {})

C2_Witness ==
    /\ last.op = "score" /\ last.repeat /\ ~last.fw /\ ~last.raised
    /\ last.metrics = {"bertscore", "hg_meteor"}
    /\ \A p \in Range(UnitPaths(last.eval, last.beams)) :
          sc[p]["bertscore"].present /\ sc[p]["huggingface"].present

\* The tool that owns a valid metric
ToolOf(m) == IF IsHg(m) THEN "huggingface" ELSE METRICS2TOOL[m]

\* C3: with force_overwrite=true a completed translate() has invoked the decode
\* hook for every requested unit, and a completed score() has invoked, for
\* every unit, the sub-routine of every tool that owns a requested metric.
C3_Overwrite ==
    (last.fw /\ ~last.raised) =>
        /\ last.op = "translate" => last.decoded = UnitPaths(last.eval, last.beams)
        /\ last.op = "score" =>
              \A p \in Range(UnitPaths(last.eval, last.beams)) :
                 \A m \in MetricsValid(last.metrics, DOMAIN METRICS2TOOL) :
                    <<p, ToolOf(m)>> \in Range(last.scored)

\* C28: after a score() call without force_overwrite that completes, the score
\* file a tool has in the directory of each requested unit holds a result for
\* every supported metric of the call that the tool owns.
C28_ScoreFileCoverage ==
    (last.op = "score" /\ ~last.fw /\ ~last.raised) =>
        \A p \in Range(UnitPaths(last.eval, last.beams)) :
           \A m \in {x \in last.metrics : IsHg(x) \/ x \in SupportedMetrics} :
              sc[p][ToolOf(m)].present =>
                  (IF IsHg(m) THEN HgStrip(m) ELSE m) \in sc[p][ToolOf(m)].metrics

\* C29: after a score() call that completes, the directory of each requested
\* unit holds, for every metric of the call that is accepted as supported, the
\* score file of the metric's tool, the one parse_metrics() looks up.
C29_SupportedMetricScored ==
    (last.op = "score" /\ ~last.raised) =>
        \A p \in Range(UnitPaths(last.eval, last.beams)) :
           \A m \in {x \in last.metrics : IsHg(x) \/ x \in SupportedMetrics} :
              sc[p][ToolOf(m)].present

\* C4: no scoring sub-routine is ever invoked on a unit whose hyp.txt and
\* ref.txt have different line counts.
C4_LineCountBeforeScoring == last.mismatch = {}

\* C27: whatever translate() calls were made, raising ones included, a unit
\* directory that holds hyp.tok also holds src.txt, ref.txt and hyp.txt, and
\* its hyp.txt has as many lines as its ref.txt.
C27_MarkerSoundness ==
    \A path \in DOMAIN fs :
        "hyp.tok" \in fs[path].files =>
            /\ {"src.txt", "ref.txt", "hyp.txt"} \subseteq fs[path].files
            /\ fs[path].hyp = fs[path].ref

\* The entry of split fn_name and beam in a returned "translations" mapping
HasEntry(translations, fn_name, beam) ==
    IF fn_name = "" THEN BeamKey(beam) \in DOMAIN translations
    ELSE /\ fn_name \in DOMAIN translations
         /\ BeamKey(beam) \in DOMAIN translations[fn_name]

Entry(translations, fn_name, beam) ==
    IF fn_name = "" THEN translations[BeamKey(beam)]
    ELSE translations[fn_name][BeamKey(beam)]

\* C7: the record parse_metrics() returns holds, for every configured split
\* and every requested beam, an entry beam<k> whose values all come from the
\* score directory of that unit.
C7_RecordCoverage ==
    (last.op = "parse_metrics" /\ last.ret.some) =>
        \A i \in DOMAIN filter_ts_data_fn : \A j \in DOMAIN last.beams :
           LET fn_name == filter_ts_data_fn[i]
               beam == last.beams[j]
               tr == last.ret.translations
           IN  /\ HasEntry(tr, fn_name, beam)
               /\ \A k \in DOMAIN Entry(tr, fn_name, beam) :
                     Entry(tr, fn_name, beam)[k][1] = ScoresPath(last.eval, fn_name, beam)

\* C24: in the record parse_metrics() returns, the keys of "translations" are
\* the beam<k> of the unnamed split and the names of the named splits, under
\* each named split are the beam<k> of all requested beams, and every entry
\* holds the values of its own unit: no split or beam replaces another's.
C24_SplitFolding ==
    (last.op = "parse_metrics" /\ last.ret.some) =>
        LET tr == last.ret.translations
            named == Range(filter_ts_data_fn) \ {""}
            beam_keys == {"beam" \o Str(last.beams[j]) : j \in DOMAIN last.beams}
        IN  /\ DOMAIN tr = named \cup (IF "" \in Range(filter_ts_data_fn) THEN beam_keys ELSE {})
            /\ \A S \in named : DOMAIN tr[S] = beam_keys
            /\ \A j \in DOMAIN last.beams :
                  \A k \in DOMAIN tr["beam" \o Str(last.beams[j])] :
                      tr["beam" \o Str(last.beams[j])][k][1]
                          = ScoresPath(last.eval, "", last.beams[j])

\* C9: score() and parse_metrics() warn about exactly the unsupported names,
\* invoke sub-routines and read score files only of tools that own a supported
\* requested metric, raise only for missing input files or a failing tool,
\* and do nothing at all when no requested metric is supported.
C9_UnsupportedMetrics ==
    (last.op \in {"score", "parse_metrics"}) =>
        LET valid == {m \in last.metrics : IsHg(m) \/ m \in SupportedMetrics}
            owners == {ToolOf(m) : m \in valid}
        IN  /\ last.warned = last.metrics \ valid
            /\ \A x \in Range(last.scored) : x[2] \in owners
            /\ \A x \in last.read : \E t \in owners : x[2] = ScoreFileName(t)
            /\ last.raised => last.err \in {"missing_files", "tool"}
            /\ valid = {} =>
                  /\ ~last.raised /\ last.scored = <<>> /\ last.read = {}
                  /\ last.wrote = {} /\ ~last.ret.some
            /\ last.metrics = {"bleu", "unknown_metric"} =>
                  \A x \in Range(last.scored) : x[2] = "sacrebleu"

C9_Witness ==
    /\ last.op = "score" /\ last.metrics = {"bleu", "unknown_metric"}
    /\ last.warned = {"unknown_metric"}
    /\ ~last.raised /\ last.scored # <<>>

\* One of src.txt, ref.txt, hyp.txt is not in a translation directory
LacksInput(dir) == \E f \in {"src.txt", "ref.txt", "hyp.txt"} : f \notin dir.files

\* C13: when the sub-routine of one tool raises for a unit, score() still
\* invokes, for that unit and for the remaining units whose input files
\* exist, the sub-routine of every other requested tool whose score file is
\* not there yet.
C13_ScoreIsolation ==
    (last.op = "score" /\ last.err = "tool") =>
        \A p \in Range(UnitPaths(last.eval, last.beams)) :
           ~LacksInput(fs[p]) =>
              \A t \in Range(ScoreRoutines) :
                 (RoutineWanted(t, last.metrics) /\ ~sc[p][t].present)
                     => <<p, t>> \in Range(last.scored)

C15_MissingInputsRaise ==
    (last.op = "score") =>
        \A p \in Range(UnitPaths(last.eval, last.beams)) :
           LacksInput(fs[p]) =>
              /\ last.raised
              /\ \A t \in Tools : <<p, t>> \notin Range(last.scored)

\* C15 as amended: the same, for a score() call in which at least one
\* requested metric is supported; no score file of the unit is written either.
C15_ScoreRequiresDecoding ==
    (last.op = "score" /\ MetricsValid(last.metrics, DOMAIN METRICS2TOOL) # {}) =>
        \A p \in Range(UnitPaths(last.eval, last.beams)) :
           LacksInput(fs[p]) =>
              /\ last.raised
              /\ \A t \in Tools : /\ <<p, t>> \notin Range(last.scored)
                                  /\ <<p, ScoreFileName(t)>> \notin last.wrote

C15_Witness ==
    /\ last.op = "score" /\ last.err = "missing_files"
    /\ last.beams = <<5, 1>>
    /\ last.scored = <<<<ScoresPath(last.eval, "", 5), "sacrebleu">>>>
    /\ fs[BeamPath(last.eval, "", 1)].files = {"hyp.tok", "src.txt", "ref.txt"}

\* C16: a translate() call with force_overwrite=false changes no file of a
\* unit whose hyp.tok existed when the call started.
C16_UnitIndependence ==
    [][ (last'.op = "translate" /\ ~last'.fw /\ ncalls' # ncalls) =>
            \A p \in AllPaths :
               TokFlag(fs[p]) =>
                  /\ fs'[p] = fs[p]
                  /\ \A f \in UnitFiles : <<p, f>> \notin last'.wrote ]_vars

C16_Witness ==
    /\ last.op = "translate" /\ ~last.fw /\ ~last.raised
    /\ last.beams = <<5, 1>>
    /\ last.decoded = <<BeamPath(last.eval, "", 1)>>
    /\ TokFlag(fs[BeamPath(last.eval, "", 5)])
    /\ fs[BeamPath(last.eval, "", 5)].hyp # fs[BeamPath(last.eval, "", 5)].ref

----------------------------------------------------------------------------
(* Properties of fit() and predict() *)

\* C11: a predict() call that raises for a missing model dataset or for
\* incompatible languages has made no directory, saved no file and started no
\* stage of any evaluation dataset.
C11_ConfigErrorsFirst ==
    (run.op = "predict" /\ run.err \in {"missing_model_ds", "languages"}) =>
        /\ run.io = <<>>
        /\ \A k \in DOMAIN run.stages : run.stages[k].translate.op = "none"

\* The stages logged for the evaluation dataset e in the latest call
StagesOf(e) == {k \in DOMAIN run.stages : run.stages[k].eval = e}

\* C12: when the decode hook, decode_file or the line-count check fails for
\* one unit inside predict(), every other unit of that evaluation dataset is
\* still decoded, and every evaluation dataset of the call with the model's
\* languages is translated, scored and parsed.
C12_TranslateIsolation ==
    (run.op = "predict" /\ run.err \in {"decode", "decode_file", "line_count"}) =>
        \A n \in DOMAIN run.eval_datasets :
           LET e == run.eval_datasets[n]
           IN  (TrgLang(e) = "de") =>
                  /\ \E k \in StagesOf(e) : /\ run.stages[k].score.op = "score"
                                            /\ run.stages[k].parse.op = "parse_metrics"
                  /\ \A i \in DOMAIN filter_ts_data_fn : \A j \in DOMAIN run.beams :
                        LET p == BeamPath(e, filter_ts_data_fn[i], run.beams[j])
                        IN  \/ "hyp.tok" \in fs[p].files
                            \/ \E k \in StagesOf(e) :
                                  /\ run.stages[k].translate.decoded # <<>>
                                  /\ p = run.stages[k].translate.decoded[
                                             Len(run.stages[k].translate.decoded)]

StageRank(kind) == CASE kind = "decode" -> 1 [] kind = "score" -> 2 [] kind = "parse" -> 3

\* The invocations of one kind made for the n-th evaluation dataset, in order
EventsOf(kind, n) == SelectSeq(run.events, LAMBDA e : e.kind = kind /\ e.n = n)

\* C26: the invocations of a predict() call form one sequence in which, for
\* each evaluation dataset, every decode hook invocation comes before every
\* scoring sub-routine invocation, which comes before parse_metrics() reads
\* the score files, and everything done for evaluation dataset n comes before
\* anything done for evaluation dataset n+1; the sequence holds every
\* invocation of every stage.
C26_StageOrdering ==
    run.op = "predict" =>
        /\ \A i, j \in DOMAIN run.events :
              i < j =>
                 \/ run.events[i].n < run.events[j].n
                 \/ /\ run.events[i].n = run.events[j].n
                    /\ StageRank(run.events[i].kind) <= StageRank(run.events[j].kind)
        /\ \A n \in DOMAIN run.stages :
              /\ Len(EventsOf("decode", n)) = Len(run.stages[n].translate.decoded)
              /\ Len(EventsOf("score", n)) = Len(run.stages[n].score.scored)
              /\ Len(EventsOf("parse", n)) = Len(run.stages[n].parse.visited)
              /\ \A i \in DOMAIN EventsOf("score", n) :
                    \E k \in DOMAIN run.stages[n].translate.visited :
                        run.stages[n].translate.visited[k] = EventsOf("score", n)[i].path
        /\ \A i \in DOMAIN run.events : run.events[i].n \in DOMAIN run.stages

\* A predict() that returns after decoding, scoring and parsing units of both
\* evaluation datasets.
C26_Witness ==
    /\ run.op = "predict" /\ run.returned
    /\ \A n \in {1, 2} : \A kind \in {"decode", "score", "parse"} :
           Len(EventsOf(kind, n)) >= 2

\* C30: predict() raises the missing-model error only when no model dataset
\* was ever supplied: not to the constructor, not to an earlier fit() or
\* predict(), not as its own model_ds argument.
C30_ModelDatasetResolution ==
    (run.op = "predict" /\ run.err = "missing_model_ds") => ~run.supplied

\* C17: what predict() returns is one record with a 'translations' mapping per
\* evaluation dataset, in the order of the evaluation datasets.
C17_ReturnedResult ==
    (run.op = "predict" /\ run.returned) =>
        /\ Len(run.ret) = Len(run.eval_datasets)
        /\ \A n \in DOMAIN run.ret :
              /\ run.ret[n].some
              /\ run.ret[n].eval_dataset = run.eval_datasets[n]

\* C19: the 'config' of every record an earlier predict() returned still has
\* the contents it had when that call returned.
C19_RecordConfigCopy ==
    \A i \in DOMAIN held : heap[held[i].result.config] = held[i].config_then

\* The parameter names a fit() or predict() call hands to _add_config
ParamNames(log) ==
    log.kwargs \cup
    (IF log.op = "fit"
     THEN {"self", "train_ds", "max_tokens", "batch_size", "force_overwrite", "kwargs"}
     ELSE {"self", "eval_datasets", "beams", "metrics", "max_tokens", "batch_size",
           "model_ds", "force_overwrite", "kwargs"})

\* C20: a fit() or predict() call removes no stage section and no recorded
\* parameter, and changes the recorded value only of parameters of its own
\* stage that it was called with.
C20_ConfigMerge ==
    [][ \A section \in DOMAIN heap[SelfConfig] :
           /\ section \in DOMAIN heap'[SelfConfig]
           /\ \A k \in DOMAIN heap[SelfConfig][section] :
                 /\ k \in DOMAIN heap'[SelfConfig][section]
                 /\ (heap'[SelfConfig][section][k] # heap[SelfConfig][section][k])
                       => (run'.op = section /\ k \in ParamNames(run')) ]_vars

C20_Witness ==
    /\ phase = "two" /\ run.op = "predict" /\ run.kwargs = {} /\ run.fw
    /\ "predict" \in DOMAIN heap[SelfConfig]
    /\ "seed" \in DOMAIN heap[SelfConfig]["predict"]
    /\ heap[SelfConfig]["predict"]["force_overwrite"] = [list |-> FALSE, v |-> <<"True">>]
    /\ heap[SelfConfig]["predict"]["beams"] = [list |-> TRUE, v |-> <<"5", "1">>]

----------------------------------------------------------------------------
(* Properties of the directories *)

\* C25: no parameter recorded in self.config has a name that starts with "_"
\* or is "kwargs", and every recorded parameter came from a string, a boolean
\* or a number: none came from a container (recorded as a list of strings).
C25_ConfigFiltering ==
    \A key \in DOMAIN heap[SelfConfig] :
        \A k \in DOMAIN heap[SelfConfig][key] :
            /\ k \notin {"_tmp", "kwargs"}
            /\ ~heap[SelfConfig][key][k].list

\* The order in which a stage given the beams is to reach the units of an
\* evaluation dataset: split filters in configured order, beams within a split.
UnitOrder(eval_name, beams) ==
    [k \in 1..(Len(filter_ts_data_fn) * Len(beams)) |->
        BeamPath(eval_name,
                 filter_ts_data_fn[((k - 1) \div Len(beams)) + 1],
                 beams[((k - 1) % Len(beams)) + 1])]

IsPrefix(p, q) == Len(p) <= Len(q) /\ \A k \in DOMAIN p : p[k] = q[k]

StageRan(log) == log.op # "none"

\* C23: the beam list predict() gives to translate(), score() and
\* parse_metrics() has no duplicates, is in descending order and holds the
\* beams of the argument ([5] when there is none), and each stage reaches the
\* units in the same order: split filters as configured, and within a split
\* the beams in that descending order (all of them when the stage completes
\* with some supported metric, the first ones when it raises).
C23_BeamOrdering ==
    run.op = "predict" =>
        \A n \in DOMAIN run.stages :
            \A log \in {l \in {run.stages[n].translate, run.stages[n].score,
                                run.stages[n].parse} : StageRan(l)} :
                /\ \A i, j \in DOMAIN log.beams : i < j => log.beams[i] > log.beams[j]
                /\ Range(log.beams) = IF run.beams_arg.none THEN {5}
                                      ELSE Range(run.beams_arg.v)
                /\ IsPrefix(log.visited, UnitOrder(run.stages[n].eval, log.beams))
                /\ (~log.raised /\ (log.op = "translate" \/ log.warned # log.metrics))
                      => log.visited = UnitOrder(run.stages[n].eval, log.beams)

\* A predict() given beams [1, 5, 1] that returns: the three stages of its
\* second evaluation dataset each went through the four units.
C23_Witness ==
    /\ run.op = "predict" /\ run.returned
    /\ run.beams_arg = SomeArg(<<1, 5, 1>>)
    /\ Len(run.stages) = 2
    /\ run.stages[2].translate.visited = run.stages[2].score.visited
    /\ run.stages[2].score.visited = run.stages[2].parse.visited
    /\ run.stages[2].parse.visited
          = <<BeamPath("e2", "", 5), BeamPath("e2", "", 1),
              BeamPath("e2", "s1", 5), BeamPath("e2", "s1", 1)>>

\* C18: two units that differ in the run, the evaluation dataset's identity
\* (subword model and vocabulary size included), the split or the beam have
\* different translation directories and different scores directories.
C18_PathNonCollision ==
    (dirs # <<>> /\ targets[1] # targets[2]) =>
        /\ dirs[1].translations # dirs[2].translations
        /\ dirs[1].scores # dirs[2].scores

----------------------------------------------------------------------------
(* Properties of collate_fn *)

\* The elements a returned tensor holds, counted row by row
CountElements(tensor) ==
    IF tensor.at = <<>> THEN 0 ELSE Len(tensor.at) * Len(tensor.at[1])

\* C5: neither closing assertion of collate_fn fails, and when it returns
\* under a budget B the two arrays hold at most B elements and at most
\* len(batch) rows.
C5_BatchBudget ==
    collated.called =>
        /\ collated.err \notin {"assert_samples", "assert_max_tokens"}
        /\ collated.err = "none" =>
              /\ Len(collated.x_padded.at) <= Len(batch)
              /\ Len(collated.y_padded.at) = Len(collated.x_padded.at)
              /\ ~max_tokens.none =>
                    CountElements(collated.x_padded) + CountElements(collated.y_padded)
                        <= max_tokens.n

C5_Witness ==
    /\ collated.called /\ collated.err = "none" /\ collated.warned
    /\ ~max_tokens.none
    /\ Len(batch) = 3 /\ Len(collated.x_padded.at) = 2
    /\ CountElements(collated.x_padded) + CountElements(collated.y_padded) = max_tokens.n

\* Row k of a returned array is the encoder's output for sample k followed by
\* the pad id only.
IsPaddedRow(row, encoded, pad_id) ==
    /\ Len(row) >= Len(encoded)
    /\ \A t \in 1..Len(row) :
          row[t] = IF t <= Len(encoded) THEN encoded[t] ELSE pad_id
    /\ \A t, t2 \in 1..Len(row) : (t < t2 /\ t > Len(encoded)) => row[t2] = pad_id

\* C6: in the arrays collate_fn returns, row k is the encoder output of the
\* k-th sample of the batch followed only by the pad id of its side, up to the
\* longest accepted sequence.
C6_BatchPadding ==
    (collated.called /\ collated.err = "none") =>
        /\ \A k \in 1..Len(collated.x_padded.at) :
              /\ IsPaddedRow(collated.x_padded.at[k],
                             Encode(src_vocab, batch[k][1], max_src_positions),
                             src_vocab.pad_id)
              /\ IsPaddedRow(collated.y_padded.at[k],
                             Encode(trg_vocab, batch[k][2], max_trg_positions),
                             trg_vocab.pad_id)
        /\ \E k \in 1..Len(collated.x_padded.at) :
              Len(collated.x_padded.at[k]) = Len(Encode(src_vocab, batch[k][1], max_src_positions))
        /\ \E k \in 1..Len(collated.y_padded.at) :
              Len(collated.y_padded.at[k]) = Len(Encode(trg_vocab, batch[k][2], max_trg_positions))

C6_Witness ==
    /\ collated.called /\ collated.err = "none"
    /\ Len(collated.x_padded.at) = 3
    /\ \E k \in 1..3 : collated.x_padded.at[k] = <<4, 1, 1>>
    /\ \E k \in 1..3 : collated.y_padded.at[k] = <<1, 3>>

\* C10: the fraction collate_fn reports when it drops samples is
\* 1 - accepted_count/len(batch), accepted_count being the rows it returns.
C10_DroppedFraction ==
    (collated.called /\ collated.warned /\ collated.err = "none") =>
        collated.drop_ratio.num * Len(batch)
            = (Len(batch) - Len(collated.x_padded.at)) * collated.drop_ratio.den

\* The encoder outputs of sample k (1-based) of the batch, and the estimate
\* (k samples) * (longest source + longest target among samples 1..k).
SrcLen(k) == Len(Encode(src_vocab, batch[k][1], max_src_positions))
TrgLen(k) == Len(Encode(trg_vocab, batch[k][2], max_trg_positions))
LongestUpTo(len(_), k) ==
    CHOOSE m \in {len(j) : j \in 1..k} : \A j \in 1..k : len(j) <= m
Estimate(k) == k * (LongestUpTo(SrcLen, k) + LongestUpTo(TrgLen, k))

\* Sample k (1-based) passes the acceptance test at its own position.
Fits(k) == max_tokens.none \/ Estimate(k) <= max_tokens.n

\* C21: collate_fn accepts sample i iff every earlier sample was accepted and
\* (i+1) * (longest source + longest target over samples 0..i) <= budget; the
\* accepted samples are the batch's prefix in input order, the encoders are
\* given that prefix and the first rejected sample only, and with no budget
\* every sample is accepted.
C21_AcceptanceRule ==
    collated.called =>
        LET n == Len(collated.x_encoded)
        IN  /\ Len(collated.y_encoded) = n
            /\ n <= Len(batch)
            /\ \A k \in 1..Len(batch) : (k <= n) <=> (\A j \in 1..k : Fits(j))
            /\ \A k \in 1..n :
                  /\ collated.x_encoded[k] = Encode(src_vocab, batch[k][1], max_src_positions)
                  /\ collated.y_encoded[k] = Encode(trg_vocab, batch[k][2], max_trg_positions)
            /\ collated.encoded = [k \in 1..Min(n + 1, Len(batch)) |-> k - 1]
            /\ collated.warned <=> n < Len(batch)
            /\ max_tokens.none => n = Len(batch)

\* A batch of three whose second sample is rejected although the third alone
\* is no longer than the first.
C21_Witness ==
    /\ collated.called /\ ~max_tokens.none
    /\ Len(batch) = 3 /\ Len(collated.x_encoded) = 1
    /\ collated.encoded = <<0, 1>>
    /\ SrcLen(3) <= SrcLen(1) /\ TrgLen(3) <= TrgLen(1)

\* The two padded arrays built from samples 1..k of the batch.
PaddedPrefix(k) ==
    [x |-> Transpose(PadSequence(
               [j \in 1..k |-> Encode(src_vocab, batch[j][1], max_src_positions)],
               src_vocab.pad_id)),
     y |-> Transpose(PadSequence(
               [j \in 1..k |-> Encode(trg_vocab, batch[j][2], max_trg_positions)],
               trg_vocab.pad_id))]

\* C22: at every sample collate_fn tests, the sample*size it compares with the
\* budget is at least the element count of the two padded arrays built from
\* the samples up to that one.
C22_EstimateUpperBound ==
    collated.called =>
        \A k \in 1..Len(collated.estimates) :
            collated.estimates[k]
                >= Numel(PaddedPrefix(k).x) + Numel(PaddedPrefix(k).y)

\* Three samples tested, of different source and target lengths.
C22_Witness ==
    /\ collated.called /\ ~max_tokens.none
    /\ Len(collated.estimates) = 3
    /\ SrcLen(1) # SrcLen(2) /\ TrgLen(2) # TrgLen(3)
    /\ collated.estimates[3] = Numel(PaddedPrefix(3).x) + Numel(PaddedPrefix(3).y)

\* The element count of the two padded arrays built from samples 1..k.
PaddedCount(k) == Numel(PaddedPrefix(k).x) + Numel(PaddedPrefix(k).y)

\* C31: (i+1) * (running source maximum + running target maximum) never
\* decreases with i, in the batch and in the values collate_fn compares with
\* the budget; so under a finite budget the rows collate_fn returns are the
\* longest prefix of the batch whose two padded arrays fit the budget, and no
\* sample after the first rejected one passes the acceptance test at its own
\* position.
C31_LongestPrefix ==
    (collated.called /\ ~max_tokens.none) =>
        LET n == Len(collated.x_encoded)
        IN  /\ \A k \in 1..(Len(batch) - 1) : Estimate(k) <= Estimate(k + 1)
            /\ \A k \in 1..(Len(collated.estimates) - 1) :
                  collated.estimates[k] <= collated.estimates[k + 1]
            /\ \A k \in 1..Len(batch) :
                  (k <= n) <=> (PaddedCount(k) <= max_tokens.n)
            /\ \A k \in (n + 2)..Len(batch) : Estimate(k) > max_tokens.n
            /\ collated.err = "none" =>
                  /\ Len(collated.x_padded.at) = n
                  /\ Len(collated.y_padded.at) = n

\* Two rows returned out of three samples: the third, short enough to fit the
\* budget in a batch of its own, does not fit at its position.
C31_Witness ==
    /\ collated.called /\ collated.err = "none" /\ ~max_tokens.none
    /\ Len(batch) = 3 /\ Len(collated.x_padded.at) = 2
    /\ SrcLen(3) + TrgLen(3) <= max_tokens.n
    /\ PaddedCount(2) < max_tokens.n /\ max_tokens.n < PaddedCount(3)
    /\ Estimate(1) < Estimate(2)

----------------------------------------------------------------------------
(* Properties of the flattening *)

AllParsed == UNION {Range(parsed[t]) : t \in DOMAIN parsed}

JoinedName(e) == Lower(e.m_name) \o "_" \o StripEnd(Lower(e.score_name))

====
